---- MODULE Spec2Model ----
(***************************************************************************)
(* Model of main.go: the one-shot provisioning pipeline that creates an    *)
(* IAM role and policy, attaches the policy, creates and annotates the     *)
(* Kubernetes service account and installs the GitLab Runner chart.        *)
(*                                                                         *)
(* The program is single-threaded; every external call blocks.  One action *)
(* of the model is one external call (SDK request or subprocess) together  *)
(* with the code that runs from its return up to the next external call.   *)
(* The result of an external call is chosen by the environment.            *)
(***************************************************************************)
EXTENDS Integers, Sequences, FiniteSets, TLC

(***************************************************************************)
(* Bounds of the model.                                                    *)
(***************************************************************************)
\* how many distinct account IDs the identity lookup may answer with
MaxAccountIDs == 2
\* how many distinct ARN partitions the IAM service may answer with
MaxPartitions == 2

AccountIDPool == <<"123456789012", "000000000001", "999999999999", "1">>
PartitionPool == <<"aws", "aws-cn", "aws-us-gov", "aws-iso">>

Min(a, b) == IF a < b THEN a ELSE b

AccountIDs == {AccountIDPool[i] : i \in 1..Min(MaxAccountIDs, Len(AccountIDPool))}
Partitions == {PartitionPool[i] : i \in 1..Min(MaxPartitions, Len(PartitionPool))}

(***************************************************************************)
(* Constants of main.go (const block).                                     *)
(***************************************************************************)
GitLabRunnerRoleName == "GitLabRunnerRole"
GitLabRunnerRolePolicyName == "GitLabRunnerRolePolicy"
\* the documents are kept as their JSON text without the layout whitespace
GitLabRunnerRolePolicyDocument ==
    "{\"Version\":\"2012-10-17\",\"Statement\":[{\"Effect\":\"Allow\",\"Action\":[\"ec2:*\",\"elasticloadbalancing:*\",\"autoscaling:*\",\"cloudwatch:*\",\"s3:*\",\"sns:*\",\"sqs:*\",\"rds:*\",\"route53:*\",\"iam:PassRole\",\"iam:GetRole\",\"iam:ListInstanceProfiles\",\"iam:ListRoles\"],\"Resource\":\"*\"}]}"
GitLabRunnerRoleAssumeRolePolicyDocument ==
    "{\"Version\":\"2012-10-17\",\"Statement\":[{\"Effect\":\"Allow\",\"Principal\":{\"Service\":\"eks.amazonaws.com\"},\"Action\":\"sts:AssumeRole\"}]}"
GitLabRunnerServiceAccountName == "gitlab-runner"
GitLabRunnerServiceAccountAnnotation == "eks.amazonaws.com/role-arn"
\* the format string "arn:aws:iam::%s:role/%s", split at its verbs
GitLabRunnerServiceAccountAnnotationValue == <<"arn:aws:iam::", "%s", ":role/", "%s">>
GitLabRunnerHelmChartName == "gitlab-runner"
GitLabRunnerHelmChartRepo == "https://charts.gitlab.io"
GitLabRunnerHelmChartVersion == "0.1.0"
GitLabRunnerHelmChartValuesFile == "values.yaml"
GitLabRunnerHelmChartReleaseName == "gitlab-runner"
GitLabRunnerHelmChartNamespace == "gitlab-runner"
\* literals of the code that are not named constants
Region == "eu-west-1"
PolicyDescription == "GitLab Runner role policy"
HelmRepoAlias == "gitlab"

(***************************************************************************)
(* fmt.Sprintf restricted to the %s verb: the literal pieces are copied,   *)
(* each %s consumes the next operand, a %s without operand prints          *)
(* %!s(MISSING).                                                           *)
(***************************************************************************)
RECURSIVE Sprintf(_, _)
Sprintf(format, operands) ==
    IF format = << >> THEN ""
    ELSE IF Head(format) = "%s"
         THEN IF operands = << >>
              THEN "%!s(MISSING)" \o Sprintf(Tail(format), operands)
              ELSE Head(operands) \o Sprintf(Tail(format), Tail(operands))
         ELSE Head(format) \o Sprintf(Tail(format), operands)

(***************************************************************************)
(* The external world the program acts on.  A resource that does not exist *)
(* has the value Absent.                                                   *)
(***************************************************************************)
Resources == {"role", "policy", "attachment", "serviceaccount", "annotation", "repo", "release"}
Absent == ""
PreExisting == "pre-existing"

Globals == {"GitLabRunnerRoleARN", "GitLabRunnerRolePolicyARN", "GitLabRunnerServiceAccountARN"}

VARIABLES
    pc,                             \* position of main: the external call it is about to make
    accountID,                      \* local accountID of main
    GitLabRunnerRoleARN,            \* package-level var
    GitLabRunnerRolePolicyARN,      \* package-level var
    GitLabRunnerServiceAccountARN,  \* package-level var
    calls,                          \* external calls made so far, in order, with their results
    env,                            \* Resources -> value: the cloud account, the cluster, the helm client
    env0,                           \* env when the process started
    exitCode,                       \* << >> while running, <<code>> once the process has exited
    writes,                         \* Globals -> number of assignments executed
    readBy                          \* Globals -> set of pipeline steps that have read the variable

vars == <<pc, accountID, GitLabRunnerRoleARN, GitLabRunnerRolePolicyARN,
          GitLabRunnerServiceAccountARN, calls, env, env0, exitCode, writes, readBy>>

\* one external call: what was called, with which arguments, how it ended, what it returned
Call(op, args, ok, ret) == [op |-> op, args |-> args, ok |-> ok, ret |-> ret]

Subprocesses == {"kubectl", "helm"}
\* a subprocess is identified by the program and its subcommand
Kind(c) == IF c.op \in Subprocesses THEN c.op \o " " \o c.args[1] ELSE c.op

\* the environments the program can be started in
InitialEnvs ==
    {e \in [Resources -> {Absent, PreExisting}] :
        /\ e["attachment"] # Absent => (e["role"] # Absent /\ e["policy"] # Absent)
        /\ e["annotation"] # Absent => e["serviceaccount"] # Absent}

Init ==
    /\ pc = "NewSession"
    /\ accountID = ""
    /\ GitLabRunnerRoleARN = ""
    /\ GitLabRunnerRolePolicyARN = ""
    /\ GitLabRunnerServiceAccountARN = ""
    /\ calls = << >>
    /\ env \in InitialEnvs
    /\ env0 = env
    /\ exitCode = << >>
    /\ writes = [g \in Globals |-> 0]
    /\ readBy = [g \in Globals |-> {}]


(***************************************************************************)
(* Results the external collaborators can give.  A create request for a    *)
(* name that already exists is rejected (IAM EntityAlreadyExists, kubectl  *)
(* AlreadyExists, helm "name is still in use"); any request can also fail  *)
(* for another reason (credentials, permissions, network).                 *)
(***************************************************************************)
CreateResults(e, r) == IF e[r] # Absent THEN {FALSE} ELSE BOOLEAN
AnyResult == BOOLEAN
RoleARNs(a) == {"arn:" \o p \o ":iam::" \o a \o ":role/" \o GitLabRunnerRoleName : p \in Partitions}
PolicyARNs(a) == {"arn:" \o p \o ":iam::" \o a \o ":policy/" \o GitLabRunnerRolePolicyName : p \in Partitions}

\* the resource a successful call creates, and the value it gets
Creates(c) ==
    CASE Kind(c) = "iam.CreateRole"       -> <<"role", c.ret>>
      [] Kind(c) = "iam.CreatePolicy"     -> <<"policy", c.ret>>
      [] Kind(c) = "iam.AttachRolePolicy" -> <<"attachment", c.args[1]>>
      [] Kind(c) = "kubectl create"       -> <<"serviceaccount", c.args[3]>>
      [] Kind(c) = "kubectl annotate"     -> <<"annotation", c.args[4]>>
      [] Kind(c) = "helm repo"            -> <<"repo", c.args[4]>>
      [] Kind(c) = "helm install"         -> <<"release", c.args[3]>>
      [] OTHER                            -> << >>

\* the environment after call c: a failed call and a read-only call change nothing
Effect(e, c) ==
    IF c.ok /\ Creates(c) # << >>
    THEN [e EXCEPT ![Creates(c)[1]] = Creates(c)[2]]
    ELSE e

(***************************************************************************)
(* logrus.Fatal(err): logs the error and calls os.Exit(1).  Nothing else   *)
(* runs: the environment stays as the calls made so far have left it.      *)
(***************************************************************************)
FatalWithRollback(e) == [pc |-> "Failed", exitCode |-> <<1>>, env |-> env0]
Fatal(e) == [pc |-> "Failed", exitCode |-> <<1>>, env |-> e]

\* main goes on to its next call, or returns (exit status 0)
Proceed(next, e) == [pc |-> next, exitCode |-> IF next = "Done" THEN <<0>> ELSE << >>, env |-> e]

After(next, e) == IF next = "Failed" THEN Fatal(e) ELSE Proceed(next, e)

Apply(o) ==
    /\ pc' = o.pc
    /\ exitCode' = o.exitCode
    /\ env' = o.env

(***************************************************************************)
(* The error checks (if err != nil) of main and of the two subprocess      *)
(* functions: where control goes after each external call.                 *)
(***************************************************************************)
NewSessionNext(ok) == IF ok THEN "GetAccountID" ELSE "Failed"
GetAccountIDNext(ok) == IF ok THEN "CreateRole" ELSE "Failed"

CreateRoleNextIgnoringErr(ok) == "CreateRolePolicy"
CreateRoleNext(ok) == IF ok THEN "CreateRolePolicy" ELSE "Failed"

CreateRolePolicyNextIgnoringErr(ok) == "AttachRolePolicy"
CreateRolePolicyNext(ok) == IF ok THEN "AttachRolePolicy" ELSE "Failed"

AttachRolePolicyNextIgnoringErr(ok) == "KubectlCreate"
AttachRolePolicyNextRetrying(ok) == IF ok THEN "KubectlCreate" ELSE "CreateRolePolicy"
AttachRolePolicyNext(ok) == IF ok THEN "KubectlCreate" ELSE "Failed"

KubectlCreateNextIgnoringErr(ok) == "KubectlAnnotate"
KubectlCreateNext(ok) == IF ok THEN "KubectlAnnotate" ELSE "Failed"

KubectlAnnotateNextSkippingRepo(ok) == IF ok THEN "HelmInstall" ELSE "Failed"
KubectlAnnotateNext(ok) == IF ok THEN "HelmRepoAdd" ELSE "Failed"

HelmRepoAddNext(ok) == IF ok THEN "HelmInstall" ELSE "Failed"
HelmInstallNext(ok) == IF ok THEN "Done" ELSE "Failed"

(***************************************************************************)
(* Accesses to the package-level variables.                                *)
(***************************************************************************)
Written(w, g) == [w EXCEPT ![g] = @ + 1]
ReadAll(r, gs, step) == [g \in Globals |-> IF g \in gs THEN r[g] \cup {step} ELSE r[g]]

\* the value createServiceAccount computes for the annotation (line 216)
ServiceAccountARNFromRoleARN(a) == GitLabRunnerRoleARN
ServiceAccountARNValue(a) ==
    Sprintf(GitLabRunnerServiceAccountAnnotationValue, <<a, GitLabRunnerRoleName>>)

\* the request attachRolePolicy builds: PolicyArn, RoleName
AttachRolePolicyInputRebuilt ==
    <<Sprintf(<<"arn:aws:iam::", "%s", ":policy/", "%s">>, <<accountID, GitLabRunnerRolePolicyName>>),
      GitLabRunnerRoleName>>
AttachRolePolicyInput == <<GitLabRunnerRolePolicyARN, GitLabRunnerRoleName>>
\* the package-level variables each function reads
AttachRolePolicyReads == {"GitLabRunnerRolePolicyARN"}
CreateServiceAccountReads == {"GitLabRunnerServiceAccountARN"}
DeployHelmChartReadsAnnotation == {"GitLabRunnerServiceAccountARN"}
DeployHelmChartReads == {}

(***************************************************************************)
(* Step 1: session.NewSession, then getAccountID.                          *)
(***************************************************************************)
NewSession ==
    /\ pc = "NewSession"
    /\ \E ok \in AnyResult :
        LET c == Call("session.NewSession", <<Region>>, ok, "") IN
        /\ calls' = Append(calls, c)
        /\ Apply(After(NewSessionNext(ok), Effect(env, c)))
    /\ UNCHANGED <<accountID, GitLabRunnerRoleARN, GitLabRunnerRolePolicyARN,
                   GitLabRunnerServiceAccountARN, env0, writes, readBy>>

GetAccountID ==
    /\ pc = "GetAccountID"
    /\ \E ok \in AnyResult :
       \E a \in IF ok THEN AccountIDs ELSE {""} :
        LET c == Call("sts.GetCallerIdentity", << >>, ok, a) IN
        /\ calls' = Append(calls, c)
        /\ accountID' = a
        /\ Apply(After(GetAccountIDNext(ok), Effect(env, c)))
    /\ UNCHANGED <<GitLabRunnerRoleARN, GitLabRunnerRolePolicyARN,
                   GitLabRunnerServiceAccountARN, env0, writes, readBy>>

(***************************************************************************)
(* Step 2: GitLabRunnerRoleARN, err = createRole(iamClient, accountID)     *)
(* The assignment stores "" when createRole returns an error.              *)
(***************************************************************************)
CreateRole ==
    /\ pc = "CreateRole"
    /\ \E ok \in CreateResults(env, "role") :
       \E arn \in IF ok THEN RoleARNs(accountID) ELSE {""} :
        LET c == Call("iam.CreateRole",
                      <<GitLabRunnerRoleAssumeRolePolicyDocument, GitLabRunnerRoleName>>, ok, arn) IN
        /\ calls' = Append(calls, c)
        /\ GitLabRunnerRoleARN' = arn
        /\ writes' = Written(writes, "GitLabRunnerRoleARN")
        /\ Apply(After(CreateRoleNext(ok), Effect(env, c)))
    /\ UNCHANGED <<accountID, GitLabRunnerRolePolicyARN, GitLabRunnerServiceAccountARN,
                   env0, readBy>>

(***************************************************************************)
(* Step 3: GitLabRunnerRolePolicyARN, err = createRolePolicy(...)          *)
(***************************************************************************)
CreateRolePolicy ==
    /\ pc = "CreateRolePolicy"
    /\ \E ok \in CreateResults(env, "policy") :
       \E arn \in IF ok THEN PolicyARNs(accountID) ELSE {""} :
        LET c == Call("iam.CreatePolicy",
                      <<PolicyDescription, GitLabRunnerRolePolicyDocument,
                        GitLabRunnerRolePolicyName>>, ok, arn) IN
        /\ calls' = Append(calls, c)
        /\ GitLabRunnerRolePolicyARN' = arn
        /\ writes' = Written(writes, "GitLabRunnerRolePolicyARN")
        /\ Apply(After(CreateRolePolicyNext(ok), Effect(env, c)))
    /\ UNCHANGED <<accountID, GitLabRunnerRoleARN, GitLabRunnerServiceAccountARN,
                   env0, readBy>>

(***************************************************************************)
(* Step 4: err = attachRolePolicy(iamClient, accountID)                    *)
(***************************************************************************)
AttachRolePolicy ==
    /\ pc = "AttachRolePolicy"
    /\ \E ok \in AnyResult :
        LET c == Call("iam.AttachRolePolicy", AttachRolePolicyInput, ok, "") IN
        /\ calls' = Append(calls, c)
        /\ readBy' = ReadAll(readBy, AttachRolePolicyReads, 4)
        /\ Apply(After(AttachRolePolicyNext(ok), Effect(env, c)))
    /\ UNCHANGED <<accountID, GitLabRunnerRoleARN, GitLabRunnerRolePolicyARN,
                   GitLabRunnerServiceAccountARN, env0, writes>>

(***************************************************************************)
(* Step 5: GitLabRunnerServiceAccountARN, err = createServiceAccount(...)  *)
(* KubectlCreate is lines 207-216 (with 140-143 when the command fails),   *)
(* KubectlAnnotate is lines 219-228 with 140-143.                          *)
(***************************************************************************)
KubectlCreate ==
    /\ pc = "KubectlCreate"
    /\ \E ok \in CreateResults(env, "serviceaccount") :
        LET c == Call("kubectl",
                      <<"create", "serviceaccount", GitLabRunnerServiceAccountName>>, ok, "") IN
        /\ calls' = Append(calls, c)
           \* on error createServiceAccount returns "" and main stores it in the
           \* variable; otherwise line 216 stores the computed value
        /\ GitLabRunnerServiceAccountARN' =
              IF KubectlCreateNext(ok) = "Failed" THEN "" ELSE ServiceAccountARNValue(accountID)
        /\ writes' = Written(writes, "GitLabRunnerServiceAccountARN")
        /\ Apply(After(KubectlCreateNext(ok), Effect(env, c)))
    /\ UNCHANGED <<accountID, GitLabRunnerRoleARN, GitLabRunnerRolePolicyARN, env0, readBy>>

KubectlAnnotate ==
    /\ pc = "KubectlAnnotate"
    /\ \E ok \in CreateResults(env, "annotation") :
        LET c == Call("kubectl",
                      <<"annotate", "serviceaccount", GitLabRunnerServiceAccountName,
                        GitLabRunnerServiceAccountAnnotation \o "=" \o GitLabRunnerServiceAccountARN>>,
                      ok, "") IN
        /\ calls' = Append(calls, c)
        /\ readBy' = ReadAll(readBy, CreateServiceAccountReads, 5)
           \* main stores what createServiceAccount returns: the variable itself, or ""
        /\ GitLabRunnerServiceAccountARN' =
              IF KubectlAnnotateNext(ok) = "Failed" THEN "" ELSE GitLabRunnerServiceAccountARN
        /\ writes' = Written(writes, "GitLabRunnerServiceAccountARN")
        /\ Apply(After(KubectlAnnotateNext(ok), Effect(env, c)))
    /\ UNCHANGED <<accountID, GitLabRunnerRoleARN, GitLabRunnerRolePolicyARN, env0>>

(***************************************************************************)
(* Step 6: err = deployHelmChart()                                         *)
(***************************************************************************)
HelmRepoAdd ==
    /\ pc = "HelmRepoAdd"
    /\ \E ok \in AnyResult :
        LET c == Call("helm",
                      <<"repo", "add", HelmRepoAlias, GitLabRunnerHelmChartRepo>>, ok, "") IN
        /\ calls' = Append(calls, c)
        /\ readBy' = ReadAll(readBy, DeployHelmChartReads, 6)
        /\ Apply(After(HelmRepoAddNext(ok), Effect(env, c)))
    /\ UNCHANGED <<accountID, GitLabRunnerRoleARN, GitLabRunnerRolePolicyARN,
                   GitLabRunnerServiceAccountARN, env0, writes>>

HelmInstall ==
    /\ pc = "HelmInstall"
    /\ \E ok \in CreateResults(env, "release") :
        LET c == Call("helm",
                      <<"install", "--name", GitLabRunnerHelmChartReleaseName,
                        "--namespace", GitLabRunnerHelmChartNamespace,
                        "--values", GitLabRunnerHelmChartValuesFile,
                        GitLabRunnerHelmChartName, "--version", GitLabRunnerHelmChartVersion>>,
                      ok, "") IN
        /\ calls' = Append(calls, c)
        /\ readBy' = ReadAll(readBy, DeployHelmChartReads, 6)
        /\ Apply(After(HelmInstallNext(ok), Effect(env, c)))
    /\ UNCHANGED <<accountID, GitLabRunnerRoleARN, GitLabRunnerRolePolicyARN,
                   GitLabRunnerServiceAccountARN, env0, writes>>

Next ==
    \/ NewSession
    \/ GetAccountID
    \/ CreateRole
    \/ CreateRolePolicy
    \/ AttachRolePolicy
    \/ KubectlCreate
    \/ KubectlAnnotate
    \/ HelmRepoAdd
    \/ HelmInstall

Spec == Init /\ [][Next]_vars

(***************************************************************************)
(* Vocabulary of the properties.                                           *)
(***************************************************************************)
\* the pipeline step (1..6) an external call belongs to
StepOf(c) ==
    CASE Kind(c) \in {"session.NewSession", "sts.GetCallerIdentity"} -> 1
      [] Kind(c) = "iam.CreateRole"                                  -> 2
      [] Kind(c) = "iam.CreatePolicy"                                -> 3
      [] Kind(c) = "iam.AttachRolePolicy"                            -> 4
      [] Kind(c) \in {"kubectl create", "kubectl annotate"}          -> 5
      [] Kind(c) \in {"helm repo", "helm install"}                   -> 6

\* the pipeline state a position of main belongs to: Resolving = 1, RoleCreating = 2,
\* PolicyCreating = 3, PolicyAttaching = 4, ServiceAccountBinding = 5,
\* ChartDeploying = 6, Done = 7; Failed is kept apart
Stage(p) ==
    CASE p \in {"NewSession", "GetAccountID"}     -> 1
      [] p = "CreateRole"                         -> 2
      [] p = "CreateRolePolicy"                   -> 3
      [] p = "AttachRolePolicy"                   -> 4
      [] p \in {"KubectlCreate", "KubectlAnnotate"} -> 5
      [] p \in {"HelmRepoAdd", "HelmInstall"}     -> 6
      [] p = "Done"                               -> 7
      [] p = "Failed"                             -> 8

Terminal == {"Done", "Failed"}
Kinds(cs) == [i \in DOMAIN cs |-> Kind(cs[i])]
IsPrefix(s, t) == Len(s) <= Len(t) /\ s = SubSeq(t, 1, Len(s))
Occurrences(cs, k) == Cardinality({i \in DOMAIN cs : Kind(cs[i]) = k})
AllOk == \A i \in DOMAIN calls : calls[i].ok
Invoked(k) == \E i \in DOMAIN calls : Kind(calls[i]) = k

\* the external calls of a run in which everything succeeds
SuccessfulRun ==
    <<"session.NewSession", "sts.GetCallerIdentity", "iam.CreateRole", "iam.CreatePolicy",
      "iam.AttachRolePolicy", "kubectl create", "kubectl annotate", "helm repo", "helm install">>

(***************************************************************************)
(* C1: a failure at pipeline step k prevents every call of the steps       *)
(* k+1..6: whenever the run holds a failed call of step k, no call of a    *)
(* later step has been made, and none is made afterwards (the calls made   *)
(* are never forgotten, so this is an invariant of the run).               *)
(***************************************************************************)
C1_FailFastAcrossSteps ==
    \A i \in DOMAIN calls :
        ~calls[i].ok => \A j \in DOMAIN calls : StepOf(calls[j]) <= StepOf(calls[i])

\* the policy attachment (step 4) has failed and the process has exited
C1_Witness ==
    /\ pc = "Failed"
    /\ Len(calls) = 5
    /\ Kind(calls[5]) = "iam.AttachRolePolicy"
    /\ ~calls[5].ok

(***************************************************************************)
(* C2: as long as every call succeeds the run makes the calls role-create, *)
(* policy-create, policy-attach, kubectl create serviceaccount, kubectl    *)
(* annotate serviceaccount, helm repo add, helm install in this order,     *)
(* each once and nothing between them; it can only end in Done, with exit  *)
(* code 0, after all of them (two kubectl and two helm calls).             *)
(***************************************************************************)
C2_SuccessfulRunSequence ==
    /\ AllOk =>
        /\ IsPrefix(Kinds(calls), SuccessfulRun)
        /\ pc \in Terminal => (pc = "Done" /\ Len(calls) = Len(SuccessfulRun))
    /\ pc = "Done" =>
        /\ AllOk
        /\ exitCode = <<0>>
        /\ Cardinality({i \in DOMAIN calls : calls[i].op = "kubectl"}) = 2
        /\ Cardinality({i \in DOMAIN calls : calls[i].op = "helm"}) = 2
        /\ SubSeq(calls[6].args, 1, 3) = <<"create", "serviceaccount", "gitlab-runner">>
        /\ SubSeq(calls[7].args, 1, 3) = <<"annotate", "serviceaccount", "gitlab-runner">>
        /\ calls[8].args = <<"repo", "add", "gitlab", "https://charts.gitlab.io">>
        /\ calls[9].args = <<"install", "--name", "gitlab-runner", "--namespace", "gitlab-runner",
                             "--values", "values.yaml", "gitlab-runner", "--version", "0.1.0">>

C2_Witness == pc = "Done" /\ AllOk /\ Len(calls) = 9

(***************************************************************************)
(* C3: when one of the four subprocesses exits non-zero, it is the last    *)
(* subprocess of the run and the process has exited with a non-zero code;  *)
(* after a failed kubectl create serviceaccount no helm call is made.      *)
(***************************************************************************)
C3_SubprocessFailFast ==
    \A i \in DOMAIN calls :
        (calls[i].op \in Subprocesses /\ ~calls[i].ok) =>
            /\ \A j \in DOMAIN calls : calls[j].op \in Subprocesses => j <= i
            /\ pc = "Failed"
            /\ exitCode # << >> /\ exitCode # <<0>>
            /\ Kind(calls[i]) = "kubectl create" =>
                   ~Invoked("helm repo") /\ ~Invoked("helm install")

\* kubectl create serviceaccount has failed
C3_Witness ==
    /\ pc = "Failed"
    /\ Len(calls) = 6
    /\ Kind(calls[6]) = "kubectl create"
    /\ ~calls[6].ok

(***************************************************************************)
(* C4: whenever the policy-attach call has been made, role-create and      *)
(* policy-create have returned successfully before it in the same run, and *)
(* the role ARN and the policy ARN they returned are held by the program   *)
(* and exist in the account.                                               *)
(***************************************************************************)
C4_AttachAfterBothARNs ==
    \A i \in DOMAIN calls :
        Kind(calls[i]) = "iam.AttachRolePolicy" =>
            /\ \E j \in 1..(i - 1) :
                /\ Kind(calls[j]) = "iam.CreateRole" /\ calls[j].ok
                /\ calls[j].ret # "" /\ GitLabRunnerRoleARN = calls[j].ret
                /\ env["role"] = calls[j].ret
            /\ \E j \in 1..(i - 1) :
                /\ Kind(calls[j]) = "iam.CreatePolicy" /\ calls[j].ok
                /\ calls[j].ret # "" /\ GitLabRunnerRolePolicyARN = calls[j].ret
                /\ env["policy"] = calls[j].ret

C4_Witness == Invoked("iam.AttachRolePolicy")

(***************************************************************************)
(* C5: the value passed to kubectl annotate, and held in                   *)
(* GitLabRunnerServiceAccountARN once createServiceAccount has returned    *)
(* successfully, is "arn:aws:iam::" + a + ":role/GitLabRunnerRole" for the *)
(* account ID a the identity lookup returned, whatever ARN role-create     *)
(* returned; for a = "123456789012" it is                                  *)
(* arn:aws:iam::123456789012:role/GitLabRunnerRole.                        *)
(***************************************************************************)
C5_AnnotationValue ==
    \A i \in DOMAIN calls :
        Kind(calls[i]) = "kubectl annotate" =>
            LET a == calls[2].ret
                expected == "arn:aws:iam::" \o a \o ":role/GitLabRunnerRole"
            IN  /\ a # ""
                /\ calls[i].args[4] = "eks.amazonaws.com/role-arn=" \o expected
                /\ calls[i].ok => GitLabRunnerServiceAccountARN = expected
                /\ a = "123456789012" =>
                      calls[i].args[4] =
                        "eks.amazonaws.com/role-arn=arn:aws:iam::123456789012:role/GitLabRunnerRole"

\* the annotation has been set although role-create returned another ARN
C5_Witness ==
    /\ Len(calls) >= 7
    /\ Kind(calls[7]) = "kubectl annotate"
    /\ calls[7].ok
    /\ calls[2].ret = "123456789012"
    /\ calls[3].ret # "arn:aws:iam::123456789012:role/GitLabRunnerRole"

(***************************************************************************)
(* C6: no rollback.  Every call the program makes is one of the nine calls *)
(* of the pipeline (none deletes or detaches), and every resource a        *)
(* successful call of the run has created exists, with the value it was    *)
(* created with, in every later state of the run, in particular when the   *)
(* process has exited after a failure.                                     *)
(***************************************************************************)
C6_NoRollback ==
    \A i \in DOMAIN calls :
        /\ Kind(calls[i]) \in {SuccessfulRun[k] : k \in DOMAIN SuccessfulRun}
        /\ (calls[i].ok /\ Creates(calls[i]) # << >>) =>
               env[Creates(calls[i])[1]] = Creates(calls[i])[2]

\* helm install has failed after everything else was created
C6_Witness ==
    /\ pc = "Failed"
    /\ Len(calls) = 9
    /\ ~calls[9].ok
    /\ \A i \in 1..8 : calls[i].ok
    /\ env0 = [r \in Resources |-> Absent]

(***************************************************************************)
(* C7: every step of a run moves the pipeline forward: from a state of the *)
(* chain Resolving .. ChartDeploying to the same state at a later call, to *)
(* the next state of the chain, or to Failed; it makes exactly one         *)
(* external call, which the run has not made before; Done and Failed are   *)
(* never left.                                                             *)
(***************************************************************************)
PcOrder ==
    <<"NewSession", "GetAccountID", "CreateRole", "CreateRolePolicy", "AttachRolePolicy",
      "KubectlCreate", "KubectlAnnotate", "HelmRepoAdd", "HelmInstall", "Done">>
PcRank(p) == CHOOSE i \in DOMAIN PcOrder : PcOrder[i] = p

C7_ForwardStep ==
    /\ pc \notin Terminal
    /\ \/ pc' = "Failed"
       \/ /\ pc' # "Failed"
          /\ PcRank(pc') > PcRank(pc)
          /\ Stage(pc') \in {Stage(pc), Stage(pc) + 1}
    /\ Len(calls') = Len(calls) + 1
    /\ SubSeq(calls', 1, Len(calls)) = calls
    /\ \A k \in {SuccessfulRun[n] : n \in DOMAIN SuccessfulRun} : Occurrences(calls', k) <= 1

C7_ForwardOnly == [][C7_ForwardStep]_vars

\* a run that has gone through the whole chain
C7_Witness == pc = "Done" /\ Len(calls) = 9

(***************************************************************************)
(* C8 as stated: each of the three package-level variables is assigned at  *)
(* most once in a run and is read by at most one step.                     *)
(***************************************************************************)
C8_WrittenOnce ==
    \A g \in Globals : writes[g] <= 1 /\ Cardinality(readBy[g]) <= 1

(***************************************************************************)
(* C8 amended: GitLabRunnerRoleARN and GitLabRunnerRolePolicyARN are       *)
(* assigned at most once in a run, GitLabRunnerServiceAccountARN at most   *)
(* twice (by createServiceAccount before kubectl annotate, and by main     *)
(* with the value createServiceAccount returns), both times in step 5;     *)
(* each of the three is read by at most one step.                          *)
(***************************************************************************)
C8_WrittenOnceExceptAnnotation ==
    /\ writes["GitLabRunnerRoleARN"] <= 1
    /\ writes["GitLabRunnerRolePolicyARN"] <= 1
    /\ writes["GitLabRunnerServiceAccountARN"] <= 2
    /\ writes["GitLabRunnerServiceAccountARN"] > 0 => Invoked("kubectl create")
    /\ \A g \in Globals : Cardinality(readBy[g]) <= 1
    /\ readBy["GitLabRunnerRoleARN"] = {}
    /\ readBy["GitLabRunnerRolePolicyARN"] \subseteq {4}
    /\ readBy["GitLabRunnerServiceAccountARN"] \subseteq {5}

\* a complete run: all three variables written, the annotation value twice
C8_Witness ==
    /\ pc = "Done"
    /\ writes["GitLabRunnerServiceAccountARN"] = 2
    /\ writes["GitLabRunnerRoleARN"] = 1
    /\ readBy["GitLabRunnerRolePolicyARN"] = {4}

(***************************************************************************)
(* C9: a run started while the IAM role already exists never reaches Done  *)
(* and never invokes policy-create, policy-attach, kubectl or helm; its    *)
(* role-create call fails and ends the run in Failed at that step.         *)
(***************************************************************************)
C9_NoIdempotency ==
    env0["role"] # Absent =>
        /\ pc # "Done"
        /\ Stage(pc) \in {1, 2, 8}
        /\ \A i \in DOMAIN calls : StepOf(calls[i]) <= 2
        /\ \A i \in DOMAIN calls :
              Kind(calls[i]) = "iam.CreateRole" =>
                  /\ ~calls[i].ok
                  /\ i = Len(calls)
                  /\ pc = "Failed"
                  /\ exitCode = <<1>>

\* the rerun has been rejected at role creation
C9_Witness ==
    /\ env0["role"] # Absent
    /\ pc = "Failed"
    /\ Len(calls) = 3
    /\ Kind(calls[3]) = "iam.CreateRole"

(***************************************************************************)
(* C10: the policy ARN passed to policy-attach is the ARN the successful   *)
(* policy-create call of the run returned (not empty, not rebuilt from     *)
(* names), and the role name passed is GitLabRunnerRole, the name that was *)
(* passed to role-create.                                                  *)
(***************************************************************************)
C10_AttachArguments ==
    \A i \in DOMAIN calls :
        Kind(calls[i]) = "iam.AttachRolePolicy" =>
            /\ calls[i].args[1] # ""
            /\ \E j \in 1..(i - 1) :
                /\ Kind(calls[j]) = "iam.CreatePolicy"
                /\ calls[j].ok
                /\ calls[i].args[1] = calls[j].ret
            /\ calls[i].args[2] = "GitLabRunnerRole"
            /\ \E j \in 1..(i - 1) :
                /\ Kind(calls[j]) = "iam.CreateRole"
                /\ calls[j].args[2] = calls[i].args[2]

\* attach was called with an ARN that the names alone do not give
C10_Witness ==
    /\ Len(calls) >= 5
    /\ Kind(calls[5]) = "iam.AttachRolePolicy"
    /\ calls[5].args[1] #
          "arn:aws:iam::" \o calls[2].ret \o ":policy/GitLabRunnerRolePolicy"

====
